---- MODULE Spec2Model ----
(***************************************************************************)
(* Limburg.net waste pickup integration (custom_components/limburgnet).    *)
(*                                                                         *)
(* Texts are sequences of one-character strings; the line feed, carriage   *)
(* return and tab characters are written "LF", "CR" and "TAB".  An         *)
(* optional value (Python None or a value) is a sequence of length 0 or 1. *)
(* A date is a triple <<year, month, day>>.                                *)
(*                                                                         *)
(* LimburgNetCoordinator extends Home Assistant's DataUpdateCoordinator.   *)
(* The steps of that base class which the integration relies on (commit    *)
(* of the value returned by _async_update_data, UpdateFailed keeping the   *)
(* previous data, ConfigEntryNotReady out of the first refresh, the        *)
(* interval timer that is unscheduled when a refresh starts and scheduled  *)
(* again when it ends) are modelled at the places where the integration    *)
(* calls or inherits them.                                                 *)
(***************************************************************************)
EXTENDS Integers, Sequences, FiniteSets, TLC

VARIABLES
    entry,                \* entry.data: source_type, source_url, csv_content
    setup,                \* position of async_setup_entry
    raised,               \* exception that left async_setup_entry, if any
    data,                 \* coordinator.data: optional snapshot
    last_update_success,  \* coordinator.last_update_success
    last_exception,       \* cause wrapped by the last UpdateFailed
    last_load,            \* how _load_csv ended in the last committed cycle
    inflight,             \* refresh cycles started and not yet committed
    timer,                \* the interval timer is scheduled
    registry,             \* hass.data[DOMAIN] holds the coordinator
    sensors,              \* the sensor entities exist
    today,                \* dt_util.now().date()
    loaded,               \* content and today of the last successful cycle
    dp_in,                \* argument of a _parse_date call
    dp_out,               \* its result
    pc_in,                \* rows of a feed given to _parse_csv in both delimiters
    pc_out,               \* the two results
    states                \* what the sensors gave to their last state write

vars == <<entry, setup, raised, data, last_update_success, last_exception,
          last_load, inflight, timer, registry, sensors, today, loaded, dp_in, dp_out, pc_in, pc_out, states>>

(***************************************************************************)
(* Bounds of the model.                                                    *)
(***************************************************************************)
\* feeds hold at most this many data rows
MaxRows == 2
\* the calendar of the date parser's inputs spans this many years
NYears == 2
\* the clock moves forward at most this many times
MaxClock == 1
\* refresh cycles that may be in flight before a trigger is refused
MaxInflight == 2

(***************************************************************************)
(* Characters and texts.                                                   *)
(***************************************************************************)
LF == "LF"
CR == "CR"
TAB == "TAB"
SP == " "

Digits == <<"0", "1", "2", "3", "4", "5", "6", "7", "8", "9">>

IsDigit(c) == \E i \in 1..10 : Digits[i] = c

DigitVal(c) == (CHOOSE i \in 1..10 : Digits[i] = c) - 1

\* str.isspace for the characters of the model
IsSpace(c) == c \in {SP, LF, CR, TAB}

RECURSIVE LStrip(_)
LStrip(s) ==
    IF s # <<>> /\ IsSpace(Head(s)) THEN LStrip(Tail(s)) ELSE s

RECURSIVE RStrip(_)
RStrip(s) ==
    IF s # <<>> /\ IsSpace(s[Len(s)]) THEN RStrip(SubSeq(s, 1, Len(s) - 1)) ELSE s

\* str.strip()
Strip(s) == LStrip(RStrip(s))

(***************************************************************************)
(* Dates.                                                                  *)
(***************************************************************************)
IsLeap(y) == (y % 4 = 0 /\ y % 100 # 0) \/ y % 400 = 0

DaysInMonth(y, m) ==
    IF m = 2 THEN (IF IsLeap(y) THEN 29 ELSE 28)
    ELSE IF m \in {4, 6, 9, 11} THEN 30 ELSE 31

\* datetime.date(y, m, d) accepts the triple
ValidDate(y, m, d) ==
    /\ y \in 1..9999
    /\ m \in 1..12
    /\ d \in 1..DaysInMonth(y, m)

\* date comparison: d1 <= d2
DateLE(d1, d2) ==
    \/ d1[1] < d2[1]
    \/ d1[1] = d2[1] /\ d1[2] < d2[2]
    \/ d1[1] = d2[1] /\ d1[2] = d2[2] /\ d1[3] <= d2[3]

DateLT(d1, d2) == DateLE(d1, d2) /\ d1 # d2

Pad2(n) == <<Digits[(n \div 10) + 1], Digits[(n % 10) + 1]>>

Pad4(n) == <<Digits[(n \div 1000) + 1], Digits[((n \div 100) % 10) + 1],
             Digits[((n \div 10) % 10) + 1], Digits[(n % 10) + 1]>>

\* date.isoformat()
IsoFormat(d) == Pad4(d[1]) \o <<"-">> \o Pad2(d[2]) \o <<"-">> \o Pad2(d[3])

(***************************************************************************)
(* datetime.strptime: the format's regular expression, tried with ordered  *)
(* alternatives and backtracking, then the check that the whole text was   *)
(* consumed, then the construction of the date.                            *)
(***************************************************************************)
At(s, i) == IF i \in 1..Len(s) THEN s[i] ELSE "EOT"

\* %Y is \d\d\d\d
YearAlts(s, p) ==
    IF \A k \in 0..3 : IsDigit(At(s, p + k))
    THEN << [len |-> 4,
             val |-> DigitVal(s[p]) * 1000 + DigitVal(s[p + 1]) * 100
                     + DigitVal(s[p + 2]) * 10 + DigitVal(s[p + 3])] >>
    ELSE << >>

\* %m is 1[0-2]|0[1-9]|[1-9]
MonthAlts(s, p) ==
    LET a == At(s, p)
        b == At(s, p + 1)
    IN  (IF a = "1" /\ b \in {"0", "1", "2"}
         THEN << [len |-> 2, val |-> 10 + DigitVal(b)] >> ELSE << >>)
        \o (IF a = "0" /\ IsDigit(b) /\ b # "0"
            THEN << [len |-> 2, val |-> DigitVal(b)] >> ELSE << >>)
        \o (IF IsDigit(a) /\ a # "0"
            THEN << [len |-> 1, val |-> DigitVal(a)] >> ELSE << >>)

\* %d is 3[0-1]|[1-2]\d|0[1-9]|[1-9]| [1-9]
DayAlts(s, p) ==
    LET a == At(s, p)
        b == At(s, p + 1)
    IN  (IF a = "3" /\ b \in {"0", "1"}
         THEN << [len |-> 2, val |-> 30 + DigitVal(b)] >> ELSE << >>)
        \o (IF a \in {"1", "2"} /\ IsDigit(b)
            THEN << [len |-> 2, val |-> DigitVal(a) * 10 + DigitVal(b)] >> ELSE << >>)
        \o (IF a = "0" /\ IsDigit(b) /\ b # "0"
            THEN << [len |-> 2, val |-> DigitVal(b)] >> ELSE << >>)
        \o (IF IsDigit(a) /\ a # "0"
            THEN << [len |-> 1, val |-> DigitVal(a)] >> ELSE << >>)
        \o (IF a = SP /\ IsDigit(b) /\ b # "0"
            THEN << [len |-> 2, val |-> DigitVal(b)] >> ELSE << >>)

Alts(item, s, p) ==
    IF item = "%Y" THEN YearAlts(s, p)
    ELSE IF item = "%m" THEN MonthAlts(s, p)
    ELSE IF item = "%d" THEN DayAlts(s, p)
    ELSE IF At(s, p) = item THEN << [len |-> 1, val |-> 0] >> ELSE << >>

\* re.match of the format's pattern from position p: the first way, in the
\* order of the alternatives, in which the rest of the format matches;
\* the result is an optional [end, Y, m, d]
RECURSIVE MatchFrom(_, _, _, _, _)
RECURSIVE TryAlts(_, _, _, _, _, _)
MatchFrom(fmt, i, s, p, acc) ==
    IF i > Len(fmt) THEN << [acc EXCEPT !.end = p] >>
    ELSE TryAlts(Alts(fmt[i], s, p), fmt, i, s, p, acc)

TryAlts(alts, fmt, i, s, p, acc) ==
    IF alts = << >> THEN << >>
    ELSE LET a == Head(alts)
             acc2 == IF fmt[i] = "%Y" THEN [acc EXCEPT !.Y = a.val]
                     ELSE IF fmt[i] = "%m" THEN [acc EXCEPT !.m = a.val]
                     ELSE IF fmt[i] = "%d" THEN [acc EXCEPT !.d = a.val]
                     ELSE acc
             r == MatchFrom(fmt, i + 1, s, p + a.len, acc2)
         IN  IF r # << >> THEN r ELSE TryAlts(Tail(alts), fmt, i, s, p, acc)

\* datetime.strptime(value, fmt).date(): an optional date, absent for ValueError
Strptime(s, fmt) ==
    LET r == MatchFrom(fmt, 1, s, 1, [end |-> 0, Y |-> 0, m |-> 0, d |-> 0])
    IN  IF r = << >> THEN << >>
        ELSE IF r[1].end # Len(s) + 1 THEN << >>
        ELSE IF ~ValidDate(r[1].Y, r[1].m, r[1].d) THEN << >>
        ELSE << <<r[1].Y, r[1].m, r[1].d>> >>

FmtIso == <<"%Y", "-", "%m", "-", "%d">>
FmtSlash == <<"%d", "/", "%m", "/", "%Y">>
FmtDash == <<"%d", "-", "%m", "-", "%Y">>

\* a plausible slip: the slash format reads the month before the day
DateFormatsMonthFirst == <<FmtIso, <<"%m", "/", "%d", "/", "%Y">>, FmtDash>>

\* the formats _parse_date tries, in order
DateFormats == <<FmtIso, FmtSlash, FmtDash>>

RECURSIVE FirstFormat(_, _, _)
FirstFormat(s, fmts, i) ==
    IF i > Len(fmts) THEN << >>
    ELSE LET r == Strptime(s, fmts[i])
         IN  IF r # << >> THEN r ELSE FirstFormat(s, fmts, i + 1)

\* _parse_date(value): an optional date
ParseDate(value) ==
    LET v == Strip(value)
    IN  IF v = << >> THEN << >> ELSE FirstFormat(v, DateFormats, 1)

(***************************************************************************)
(* const.py                                                                *)
(***************************************************************************)
Huisvuil == <<"H", "u", "i", "s", "v", "u", "i", "l">>
Tuinafval == <<"T", "u", "i", "n", "a", "f", "v", "a", "l">>
Keukenafval == <<"K", "e", "u", "k", "e", "n", "a", "f", "v", "a", "l">>
Textiel == <<"T", "e", "x", "t", "i", "e", "l">>
Pmd == <<"P", "m", "d">>
PapierKarton == <<"P", "a", "p", "i", "e", "r", " ", "&", " ",
                  "k", "a", "r", "t", "o", "n">>

WASTE_TYPES == {Huisvuil, Tuinafval, Keukenafval, Textiel, Pmd, PapierKarton}

SOURCE_TYPE_URL == "url"
SOURCE_TYPE_UPLOAD == "upload"

(***************************************************************************)
(* csv.Sniffer().sniff on one line without quote characters: every         *)
(* character of the line is a candidate; a single candidate wins, then     *)
(* the preferred ones in their order, then the most frequent (the greater  *)
(* character on a tie).  An optional [delimiter, skipinitialspace]; absent *)
(* is csv.Error("Could not determine delimiter").                          *)
(***************************************************************************)
\* the characters of the model in ASCII order
AsciiOrder == <<TAB, LF, CR, " ", "&", ",", "-", "/",
                "0", "1", "2", "3", "4", "5", "6", "7", "8", "9", ":", ";",
                "D", "H", "K", "M", "O", "P", "R", "T", "V",
                "a", "b", "d", "e", "f", "g", "h", "i", "j", "k", "l", "m",
                "n", "o", "p", "r", "s", "t", "u", "v", "w", "x">>

Ord(c) == CHOOSE i \in 1..Len(AsciiOrder) : AsciiOrder[i] = c

Count(s, c) == Cardinality({i \in 1..Len(s) : s[i] = c})

\* str.count of the two-character text c followed by a space: the matches
\* do not overlap, so in a run of spaces every second one starts a match
CountPair(s, c) ==
    LET run(i) == CHOOSE j \in 1..i :
                      /\ \A k \in j..i : s[k] = SP
                      /\ (j = 1 \/ s[j - 1] # SP)
    IN  Cardinality({i \in 1..(Len(s) - 1) :
            /\ s[i] = c
            /\ s[i + 1] = SP
            /\ (c = SP => (i - run(i)) % 2 = 0)})

Preferred == <<",", TAB, ";", " ", ":">>

Sniff(line) ==
    LET cands == {line[i] : i \in 1..Len(line)}
        pref == {i \in 1..Len(Preferred) : Preferred[i] \in cands}
        best == CHOOSE c \in cands : \A o \in cands :
                    \/ Count(line, o) < Count(line, c)
                    \/ Count(line, o) = Count(line, c) /\ Ord(o) <= Ord(c)
        d == IF Cardinality(cands) = 1 THEN CHOOSE c \in cands : TRUE
             ELSE IF pref # {}
                  THEN Preferred[CHOOSE i \in pref : \A j \in pref : i <= j]
             ELSE best
    IN  IF cands = {} THEN << >>
        ELSE << [delimiter |-> d,
                 skipinitialspace |-> (Count(line, d) = CountPair(line, d))] >>

\* content.splitlines()[0]
FirstLine(s) ==
    LET brk == {i \in 1..Len(s) : s[i] \in {LF, CR}}
    IN  IF brk = {} THEN s
        ELSE SubSeq(s, 1, (CHOOSE i \in brk : \A j \in brk : i <= j) - 1)

\* a plausible slip: the delimiter is not detected, ";" is always used
DialectSemicolon(content) == [delimiter |-> ";", skipinitialspace |-> FALSE]

\* the dialect of _parse_csv: the sniffed one, or csv.excel with ";"
Dialect(content) ==
    LET r == Sniff(FirstLine(content))
    IN  IF r # << >> THEN r[1]
        ELSE [delimiter |-> ";", skipinitialspace |-> FALSE]

(***************************************************************************)
(* csv.reader over io.StringIO(content): lines end at LF; each line is run *)
(* through the reader's state machine (no quote characters in the model).  *)
(***************************************************************************)
\* the lines io.StringIO yields, each with its line feed
Lines(s) ==
    LET ends == {i \in 1..Len(s) : s[i] = LF \/ i = Len(s)}
        nth(k) == CHOOSE e \in ends : Cardinality({f \in ends : f < e}) = k - 1
    IN  [k \in 1..Cardinality(ends) |->
            SubSeq(s, (IF k = 1 THEN 1 ELSE nth(k - 1) + 1), nth(k))]

\* the reader skips the spaces that start a field under skipinitialspace
RECURSIVE SkipSpaces(_)
SkipSpaces(f) == IF f # << >> /\ Head(f) = SP THEN SkipSpaces(Tail(f)) ELSE f

\* the fields of the text of a record: a field ends at each delimiter
Fields(text, dia) ==
    LET cuts == {i \in 1..Len(text) : text[i] = dia.delimiter} \cup {Len(text) + 1}
        nth(k) == CHOOSE e \in cuts : Cardinality({f \in cuts : f < e}) = k - 1
        raw(k) == SubSeq(text, (IF k = 1 THEN 1 ELSE nth(k - 1) + 1), nth(k) - 1)
    IN  [k \in 1..Cardinality(cuts) |->
            IF dia.skipinitialspace THEN SkipSpaces(raw(k)) ELSE raw(k)]

\* one line through the reader's state machine: [err, fields].  The record
\* ends at the first LF or CR (state EAT_CRNL); a line that starts with one
\* is an empty record; any other character after it is the error
\* "new-line character seen in unquoted field"
ReadLine(line, dia) ==
    LET brk == {i \in 1..Len(line) : line[i] \in {LF, CR}}
        first == IF brk = {} THEN Len(line) + 1
                 ELSE CHOOSE i \in brk : \A j \in brk : i <= j
    IN  [err |-> \E i \in first..Len(line) : line[i] \notin {LF, CR},
         fields |-> IF first = 1 THEN << >> ELSE Fields(SubSeq(line, 1, first - 1), dia)]

\* row.get(key) of csv.DictReader: the value of the last column named key,
\* None (absent) when the row is shorter or no column has the name
RowGet(fieldnames, row, key) ==
    LET idx == {i \in 1..Len(fieldnames) : fieldnames[i] = key}
        last == CHOOSE i \in idx : \A j \in idx : j <= i
    IN  IF idx = {} THEN << >>
        ELSE IF last <= Len(row) THEN <<row[last]>>
        ELSE << >>

\* x or ""
OrEmpty(opt) == IF opt = << >> THEN << >> ELSE opt[1]

Datum == <<"D", "a", "t", "u", "m">>
Ophaling == <<"O", "p", "h", "a", "l", "i", "n", "g">>

\* the rows csv.DictReader yields: the first record names the columns, an
\* empty record is skipped; of each row the two values _parse_csv reads
DictRows(records) ==
    LET body == SelectSeq(SubSeq(records, 2, Len(records)), LAMBDA r : r # << >>)
    IN  [k \in 1..Len(body) |->
            [Datum |-> RowGet(records[1], body[k], Datum),
             Ophaling |-> RowGet(records[1], body[k], Ophaling)]]

\* a plausible slip: the value is compared untrimmed
RowWasteTypeNoStrip(row) == OrEmpty(row.Ophaling)

\* waste_type = (row.get("Ophaling") or "").strip()
RowWasteType(row) == Strip(OrEmpty(row.Ophaling))

\* the pickup of a row: date_str, date_obj and the dict that is appended
RowPickup(row) ==
    LET date_str == OrEmpty(row.Datum)
        date_obj == ParseDate(date_str)
    IN  [date |-> IF date_obj # << >> THEN IsoFormat(date_obj[1]) ELSE date_str,
         date_obj |-> date_obj,
         waste_type |-> RowWasteType(row)]

\* for row in reader: rows of an unknown waste type are skipped
RECURSIVE RowLoop(_, _)
RowLoop(rows, i) ==
    IF i > Len(rows) THEN << >>
    ELSE IF RowWasteType(rows[i]) \notin WASTE_TYPES THEN RowLoop(rows, i + 1)
    ELSE <<RowPickup(rows[i])>> \o RowLoop(rows, i + 1)

DateMin == <<1, 1, 1>>

\* item["date_obj"] or date.min
SortKey(item) == IF item.date_obj # << >> THEN item.date_obj[1] ELSE DateMin

\* list.sort is stable: an item goes after the items that are not greater
RECURSIVE Insert(_, _)
Insert(sorted, item) ==
    IF sorted = << >> THEN <<item>>
    ELSE IF DateLE(SortKey(Head(sorted)), SortKey(item))
        THEN <<Head(sorted)>> \o Insert(Tail(sorted), item)
    ELSE <<item>> \o sorted

RECURSIVE StableSort(_, _)
StableSort(items, i) ==
    IF i = 0 THEN << >> ELSE Insert(StableSort(items, i - 1), items[i])

\* a plausible slip: the list is returned in row order
SortPickupsNone(pickups) == pickups

\* pickups.sort(key=...)
SortPickups(pickups) == StableSort(pickups, Len(pickups))

\* the records csv.reader yields for the content: [err, fields] per line
ReadRecords(content) ==
    LET lines == Lines(content)
    IN  [i \in 1..Len(lines) |-> ReadLine(lines[i], Dialect(content))]

\* the rows of a content the reader accepts
ContentRows(content) ==
    IF content = << >> THEN << >>
    ELSE DictRows([i \in 1..Len(ReadRecords(content)) |-> ReadRecords(content)[i].fields])

\* _parse_csv(content): [raised, pickups]; raised is a csv.Error out of the reader
ParseCsv(content) ==
    IF content = << >> THEN [raised |-> FALSE, pickups |-> << >>]
    ELSE IF \E i \in 1..Len(ReadRecords(content)) : ReadRecords(content)[i].err
        THEN [raised |-> TRUE, pickups |-> << >>]
    ELSE [raised |-> FALSE, pickups |-> SortPickups(RowLoop(ContentRows(content), 1))]

\* _clean_pickup(item) for an item that is present
CleanPickup(item) == [date |-> item.date, waste_type |-> item.waste_type]

(***************************************************************************)
(* The inputs of the model: feed contents, config entries, the calendar.   *)
(***************************************************************************)
Verwijderd == <<"V", "e", "r", "w", "i", "j", "d", "e", "r", "d">>
Reden == <<"R", "e", "d", "e", "n">>
\* labels that are not in WASTE_TYPES
PmdUpper == <<"P", "M", "D">>
PapierKartonUpper == <<"P", "a", "p", "i", "e", "r", " ", "&", " ",
                       "K", "a", "r", "t", "o", "n">>
Onbekend == <<"O", "n", "b", "e", "k", "e", "n", "d">>

\* the day the model starts on, and the days of the feeds
StartDay == <<2025, 1, 9>>
DayNear == <<2025, 1, 10>>
DayPast == <<2024, 12, 20>>
DayFuture == <<2025, 3, 1>>

\* the three spellings of a day
SpellIso(d) == Pad4(d[1]) \o <<"-">> \o Pad2(d[2]) \o <<"-">> \o Pad2(d[3])
SpellSlash(d) == Pad2(d[3]) \o <<"/">> \o Pad2(d[2]) \o <<"/">> \o Pad4(d[1])
SpellDash(d) == Pad2(d[3]) \o <<"-">> \o Pad2(d[2]) \o <<"-">> \o Pad4(d[1])

BadDate == <<"2", "0", "2", "5", "-", "1", "3", "-", "0", "1">>

\* the date and category of the rows of the well-formed feeds
RowChoices ==
    { <<SpellIso(DayNear), Huisvuil>>,
      <<SpellSlash(DayPast), Huisvuil>>,
      <<SpellDash(DayFuture), <<SP>> \o Pmd>>,
      <<SpellSlash(DayNear), <<SP>> \o Pmd>> }

RECURSIVE Join(_, _)
Join(fields, dl) ==
    IF fields = << >> THEN << >>
    ELSE IF Len(fields) = 1 THEN fields[1]
    ELSE fields[1] \o <<dl>> \o Join(Tail(fields), dl)

HeaderLine(dl) == Join(<<Datum, Ophaling, Verwijderd, Reden>>, dl) \o <<LF>>

RowLine(dl, d, t) == Join(<<d, t, << >>, << >> >>, dl) \o <<LF>>

RowTexts(dl) == {RowLine(dl, c[1], c[2]) : c \in RowChoices}

RECURSIVE Concat(_)
Concat(ss) == IF ss = << >> THEN << >> ELSE Head(ss) \o Concat(Tail(ss))

\* well-formed feeds of up to MaxRows rows
RegularFeeds ==
    {HeaderLine(";") \o Concat(rows) :
        rows \in UNION {[1..n -> RowTexts(";")] : n \in 0..MaxRows}}
    \cup {HeaderLine(",") \o r : r \in RowTexts(",")}

\* feeds with row-level anomalies
OddFeeds ==
    { << >>,
      \* no header
      RowLine(";", SpellIso(DayNear), Huisvuil),
      \* a label in another casing, a text that is no date
      HeaderLine(";") \o RowLine(";", SpellIso(DayFuture), PmdUpper)
          \o RowLine(";", BadDate, Pmd) \o RowLine(";", SpellIso(DayNear), Pmd),
      \* an unknown category, missing columns, extra columns, an empty date
      HeaderLine(";") \o RowLine(";", SpellIso(DayNear), Onbekend)
          \o Join(<<SpellIso(DayFuture), Textiel>>, ";") \o <<LF>>
          \o Join(<<SpellSlash(DayNear), PapierKarton, << >>, << >>, <<"x">>, <<"x">> >>, ";")
          \o <<LF>>
          \o RowLine(";", << >>, Tuinafval),
      \* a blank line, CR LF line ends, the other casing of a label
      Datum \o <<";">> \o Ophaling \o <<CR, LF, CR, LF>>
          \o Join(<<SpellDash(DayNear), Keukenafval>>, ";") \o <<CR, LF>>
          \o Join(<<SpellIso(DayNear), PapierKartonUpper>>, ";"),
      \* a carriage return inside a row
      HeaderLine(";") \o RowLine(";", SpellIso(DayNear), Huisvuil)
          \o SpellIso(DayFuture) \o <<";">> \o Pmd \o <<CR>> \o <<";", ";", LF>>,
      \* a first line without any character to sniff
      <<LF>> \o HeaderLine(";") \o RowLine(";", SpellIso(DayNear), Huisvuil) }

Feeds == RegularFeeds \cup OddFeeds

UrlHttps == <<"h", "t", "t", "p", "s", ":", "/", "/", "x", "/", "k">>
UrlHttpUpper == <<"H", "T", "T", "P", ":", "/", "/", "x", "/", "k">>
UrlPath == <<"k", ".", "c", "s", "v">>

\* entry.data as the config flow or an earlier storage version may hold it;
\* an absent or empty value is the empty text
Entries ==
    {[source_type |-> t, source_url |-> u, csv_content |-> << >>] :
        t \in {"url"}, u \in {UrlHttps, UrlHttpUpper, UrlPath, << >>}}
    \cup {[source_type |-> "", source_url |-> UrlHttps, csv_content |-> << >>]}
    \cup {[source_type |-> "upload", source_url |-> << >>, csv_content |-> c] :
            c \in Feeds}
    \cup {[source_type |-> "upload", source_url |-> UrlHttps, csv_content |-> << >>],
          [source_type |-> "ftp", source_url |-> UrlHttps, csv_content |-> << >>],
          [source_type |-> "ftp", source_url |-> << >>, csv_content |-> << >>]}

\* the day after d
NextDay(d) ==
    IF d[3] < DaysInMonth(d[1], d[2]) THEN <<d[1], d[2], d[3] + 1>>
    ELSE IF d[2] < 12 THEN <<d[1], d[2] + 1, 1>>
    ELSE <<d[1] + 1, 1, 1>>

RECURSIVE AddDays(_, _)
AddDays(d, n) == IF n = 0 THEN d ELSE AddDays(NextDay(d), n - 1)

(***************************************************************************)
(* __init__.py: LimburgNetCoordinator                                      *)
(***************************************************************************)
\* self._source_type = source_type or SOURCE_TYPE_URL
CoordSourceType(e) == IF e.source_type = "" THEN SOURCE_TYPE_URL ELSE e.source_type

UpperLower == [c \in {"H", "T", "P"} |->
                  IF c = "H" THEN "h" ELSE IF c = "T" THEN "t" ELSE "p"]

Lower(s) == [i \in 1..Len(s) |->
                IF s[i] \in DOMAIN UpperLower THEN UpperLower[s[i]] ELSE s[i]]

\* urlparse(url).scheme: the lowered text before the first colon when it
\* is made of scheme characters
UrlScheme(u) ==
    LET colons == {i \in 1..Len(u) : u[i] = ":"}
        first == CHOOSE i \in colons : \A j \in colons : i <= j
    IN  IF colons = {} THEN << >>
        ELSE IF first = 1 THEN << >>
        ELSE IF \E i \in 1..(first - 1) : u[i] \in {"/", " ", "&", ",", ";"} THEN << >>
        ELSE Lower(SubSeq(u, 1, first - 1))

\* the way _load_csv takes up to its first suspension
LoadRoute(e) ==
    IF CoordSourceType(e) = SOURCE_TYPE_UPLOAD /\ e.csv_content # << >> THEN "inline"
    ELSE IF e.source_url = << >> THEN "no_source"
    ELSE IF UrlScheme(e.source_url) \in {<<"h", "t", "t", "p">>, <<"h", "t", "t", "p", "s">>}
        THEN "http"
    ELSE "file"

\* a plausible slip: today itself is not upcoming
IsUpcomingStrict(item, day) == item.date_obj # << >> /\ DateLT(day, item.date_obj[1])

\* item.get("date_obj") and item["date_obj"] >= today
IsUpcoming(item, day) == item.date_obj # << >> /\ DateLE(day, item.date_obj[1])

\* [item for item in pickups if ...]
RECURSIVE Upcoming(_, _, _)
Upcoming(pickups, day, i) ==
    IF i > Len(pickups) THEN << >>
    ELSE IF IsUpcoming(pickups[i], day)
        THEN <<pickups[i]>> \o Upcoming(pickups, day, i + 1)
    ELSE Upcoming(pickups, day, i + 1)

\* min(upcoming_pickups, key=date_obj): the first item of the least date
MinPickup(up) ==
    LET i == CHOOSE k \in 1..Len(up) :
                 /\ \A j \in 1..Len(up) : DateLE(up[k].date_obj[1], up[j].date_obj[1])
                 /\ \A j \in 1..(k - 1) : up[j].date_obj[1] # up[k].date_obj[1]
    IN  up[i]

\* the dict _fetch_pickup_data returns for the parsed pickups
Snapshot(e, pickups, day) ==
    LET up == Upcoming(pickups, day, 1)
    IN  [source_url |-> e.source_url,
         next_pickup |-> IF up = << >> THEN << >> ELSE <<CleanPickup(MinPickup(up))>>,
         pickups |-> [i \in 1..Len(up) |-> CleanPickup(up[i])]]

\* _parse_csv on each content of the model, computed once
ParsedFeeds == [f \in Feeds |-> ParseCsv(f)]

\* the rows of each content of the model, computed once
FeedRows == [f \in Feeds |-> ContentRows(f)]

\* _fetch_pickup_data after _parse_csv: p is [raised, pickups]
FetchParsed(e, p, day) ==
    IF p.raised THEN [ok |-> FALSE, value |-> << >>, error |-> "csv.Error"]
    ELSE [ok |-> TRUE, value |-> <<Snapshot(e, p.pickups, day)>>, error |-> ""]

\* _fetch_pickup_data after _load_csv: load is [ok, text, error]
FetchPickupData(e, load, day) ==
    IF ~load.ok THEN [ok |-> FALSE, value |-> << >>, error |-> load.error]
    ELSE FetchParsed(e, ParsedFeeds[load.text], day)

\* a plausible slip: the error is swallowed and an empty result returned
AsyncUpdateDataSwallow(e, load, day) ==
    IF load.ok /\ ~ParsedFeeds[load.text].raised THEN FetchPickupData(e, load, day)
    ELSE [ok |-> TRUE, value |-> <<Snapshot(e, << >>, day)>>, error |-> ""]

\* _async_update_data: the result, or UpdateFailed wrapping the error
AsyncUpdateData(e, load, day) == FetchPickupData(e, load, day)

(***************************************************************************)
(* The sensors (sensor.py).  There is one LimburgNetWasteTypeSensor per    *)
(* waste type.  Home Assistant reads the properties of the entities when   *)
(* it writes their state: when they are added and on every update of the   *)
(* coordinator; an entity of a coordinator whose last update failed is     *)
(* unavailable and its properties are not read.                            *)
(***************************************************************************)
\* a plausible slip: the last pickup of the type is taken
NextPickupForTypeLast(snap, waste_type) ==
    LET idx == {i \in 1..Len(snap.pickups) : snap.pickups[i].waste_type = waste_type}
    IN  IF idx = {} THEN << >>
        ELSE <<snap.pickups[CHOOSE i \in idx : \A j \in idx : j <= i]>>

\* _next_pickup_for_type: the first item of data["pickups"] of the type
NextPickupForType(snap, waste_type) ==
    LET idx == {i \in 1..Len(snap.pickups) : snap.pickups[i].waste_type = waste_type}
    IN  IF idx = {} THEN << >>
        ELSE <<snap.pickups[CHOOSE i \in idx : \A j \in idx : i <= j]>>

\* LimburgNetWasteTypeSensor.native_value
WasteTypeNativeValue(snap, waste_type) ==
    IF NextPickupForType(snap, waste_type) = << >> THEN << >>
    ELSE <<NextPickupForType(snap, waste_type)[1].date>>

\* the sensors before their first state write
NoStates ==
    [available |-> FALSE, error |-> FALSE, native |-> [w \in WASTE_TYPES |-> << >>]]

\* a state write of the sensors of a coordinator with data d (optional
\* snapshot) and last_update_success ok; self.coordinator.data.get raises
\* AttributeError on data that is None
WriteState(d, ok, prev) ==
    IF ~ok THEN [prev EXCEPT !.available = FALSE]
    ELSE IF d = << >>
        THEN [available |-> TRUE, error |-> TRUE,
              native |-> [w \in WASTE_TYPES |-> << >>]]
    ELSE [available |-> TRUE, error |-> FALSE,
          native |-> [w \in WASTE_TYPES |-> WasteTypeNativeValue(d[1], w)]]

(***************************************************************************)
(* The refresh cycle.  A cycle is in flight from the call of               *)
(* _async_update_data to the commit of its result by the coordinator.      *)
(***************************************************************************)
LoadOk(text) == [ok |-> TRUE, text |-> text, error |-> ""]
LoadError(error) == [ok |-> FALSE, text |-> << >>, error |-> error]

\* _async_update_data is called: _load_csv runs to its first suspension
BeginCycle(trigger) ==
    inflight' = Append(inflight, [trigger |-> trigger, route |-> LoadRoute(entry)])

Remove(seq, i) == SubSeq(seq, 1, i - 1) \o SubSeq(seq, i + 1, Len(seq))

\* a plausible slip: the first refresh is a plain async_refresh, which logs
\* the failure and lets async_setup_entry go on
CommitResultNoRaise(i, load, r, first) ==
    /\ inflight' = Remove(inflight, i)
    /\ data' = IF r.ok THEN r.value ELSE data
    /\ last_update_success' = r.ok
    /\ last_exception' = r.error
    /\ last_load' = IF load.ok THEN "text" ELSE load.error
    /\ loaded' = IF r.ok THEN <<[content |-> load.text, today |-> today]>>
                 ELSE loaded
    /\ setup' = IF first THEN "forwarding" ELSE setup
    /\ raised' = raised
    /\ registry' = IF first THEN TRUE ELSE registry
    /\ timer' = IF first THEN timer ELSE sensors
    /\ states' = IF sensors THEN <<WriteState(r.value, r.ok, states[1])>> ELSE states
    /\ UNCHANGED <<entry, sensors, today, dp_in, dp_out, pc_in, pc_out>>

\* the coordinator takes the result r of cycle i: the value becomes its
\* data, UpdateFailed leaves the data as it is; the first refresh then
\* resumes async_setup_entry (first), a later one schedules the timer for
\* the listeners
CommitResult(i, load, r, first) ==
    /\ inflight' = Remove(inflight, i)
    /\ data' = IF r.ok THEN r.value ELSE data
    /\ last_update_success' = r.ok
    /\ last_exception' = r.error
    /\ last_load' = IF load.ok THEN "text" ELSE load.error
    /\ loaded' = IF r.ok THEN <<[content |-> load.text, today |-> today]>>
                 ELSE loaded
    /\ setup' = IF first THEN (IF r.ok THEN "forwarding" ELSE "not_ready")
                ELSE setup
    /\ raised' = IF first /\ ~r.ok THEN "ConfigEntryNotReady" ELSE raised
    /\ registry' = IF first /\ r.ok THEN TRUE ELSE registry
    /\ timer' = IF first THEN timer ELSE sensors
    /\ states' = IF sensors THEN <<WriteState(r.value, r.ok, states[1])>> ELSE states
    /\ UNCHANGED <<entry, sensors, today, dp_in, dp_out, pc_in, pc_out>>

\* cycle i ends with the result of _load_csv
Commit(i, load) ==
    CommitResult(i, load, AsyncUpdateData(entry, load, today),
                 inflight[i].trigger = "first" /\ setup = "first_refresh")

\* a plausible slip: the first refresh is started but not awaited
AsyncSetupEntryNoAwait ==
    /\ setup \in {"idle", "not_ready"}
    /\ setup' = "forwarding"
    /\ registry' = TRUE
    /\ raised' = ""
    /\ data' = << >>
    /\ last_update_success' = TRUE
    /\ last_exception' = ""
    /\ last_load' = ""
    /\ loaded' = << >>
    /\ BeginCycle("first")
    /\ UNCHANGED <<entry, timer, sensors, today, dp_in, dp_out, pc_in, pc_out, states>>

\* async_setup_entry up to "await coordinator.async_config_entry_first_refresh()";
\* Home Assistant calls it again after ConfigEntryNotReady
AsyncSetupEntry ==
    /\ setup \in {"idle", "not_ready"}
    /\ setup' = "first_refresh"
    /\ raised' = ""
    /\ data' = << >>
    /\ last_update_success' = TRUE
    /\ last_exception' = ""
    /\ last_load' = ""
    /\ loaded' = << >>
    /\ BeginCycle("first")
    /\ UNCHANGED <<entry, timer, registry, sensors, today, dp_in, dp_out, pc_in, pc_out, states>>

\* sensor.py async_setup_entry: the entities are added and listen to the
\* coordinator, which schedules its interval timer
SensorSetupEntry ==
    /\ setup = "forwarding"
    /\ registry
    /\ setup' = "loaded"
    /\ sensors' = TRUE
    /\ timer' = TRUE
    /\ states' = <<WriteState(data, last_update_success, NoStates)>>
    /\ UNCHANGED <<entry, raised, data, last_update_success, last_exception,
                   last_load, inflight, registry, today, loaded, dp_in, dp_out, pc_in, pc_out>>

\* a plausible slip: the coordinator is popped whatever unload_ok is
AsyncUnloadEntryPopAlways ==
    /\ setup = "loaded"
    /\ \E unload_ok \in BOOLEAN :
          IF unload_ok
          THEN /\ setup' = "idle"
               /\ sensors' = FALSE
               /\ timer' = FALSE
               /\ states' = << >>
               /\ registry' = FALSE
               /\ inflight' = << >>
               /\ data' = << >>
               /\ last_update_success' = TRUE
               /\ last_exception' = ""
               /\ last_load' = ""
               /\ loaded' = << >>
               /\ UNCHANGED <<entry, raised, today, dp_in, dp_out, pc_in, pc_out>>
          ELSE /\ setup' = "failed_unload"
               /\ registry' = FALSE
               /\ UNCHANGED <<entry, raised, data, last_update_success, last_exception,
                              last_load, inflight, timer, sensors, today,
                              loaded, dp_in, dp_out, pc_in, pc_out, states>>

\* async_unload_entry of a loaded entry.  When the platforms unload, the
\* entities are removed, with them the listeners and the timer of the
\* coordinator, the coordinator is popped from hass.data[DOMAIN] and Home
\* Assistant cancels the refresh the entry has in flight; the coordinator
\* object is dropped.  When they do not, the entry stays as it is and Home
\* Assistant marks it as failed to unload.
AsyncUnloadEntry ==
    /\ setup = "loaded"
    /\ \E unload_ok \in BOOLEAN :
          IF unload_ok
          THEN /\ setup' = "idle"
               /\ sensors' = FALSE
               /\ timer' = FALSE
               /\ states' = << >>
               /\ registry' = FALSE
               /\ inflight' = << >>
               /\ data' = << >>
               /\ last_update_success' = TRUE
               /\ last_exception' = ""
               /\ last_load' = ""
               /\ loaded' = << >>
               /\ UNCHANGED <<entry, raised, today, dp_in, dp_out, pc_in, pc_out>>
          ELSE /\ setup' = "failed_unload"
               /\ UNCHANGED <<entry, raised, data, last_update_success, last_exception,
                              last_load, inflight, timer, registry, sensors, today,
                              loaded, dp_in, dp_out, pc_in, pc_out, states>>

\* the interval timer fires (update_interval=DEFAULT_SCAN_INTERVAL)
HandleRefreshInterval ==
    /\ timer
    /\ Len(inflight) < MaxInflight
    /\ timer' = FALSE
    /\ BeginCycle("timer")
    /\ UNCHANGED <<entry, setup, raised, data, last_update_success, last_exception,
                   last_load, registry, sensors, today, loaded, dp_in, dp_out, pc_in, pc_out, states>>

\* return self._csv_content
LoadInline ==
    \E i \in 1..Len(inflight) :
        /\ inflight[i].route = "inline"
        /\ Commit(i, LoadOk(entry.csv_content))

\* raise HomeAssistantError("No CSV source configured.")
LoadNoSource ==
    \E i \in 1..Len(inflight) :
        /\ inflight[i].route = "no_source"
        /\ Commit(i, LoadError("no_source"))

\* the response arrives with status 200: return await resp.text()
HttpOk ==
    \E i \in 1..Len(inflight), body \in Feeds :
        /\ inflight[i].route = "http"
        /\ Commit(i, LoadOk(body))

\* the response arrives with another status: raise HomeAssistantError
HttpStatus ==
    \E i \in 1..Len(inflight) :
        /\ inflight[i].route = "http"
        /\ Commit(i, LoadError("http_status"))

\* session.get or resp.text raises (connection refused, reset, timed out)
HttpClientError ==
    \E i \in 1..Len(inflight) :
        /\ inflight[i].route = "http"
        /\ Commit(i, LoadError("client_error"))

\* path.read_text returns
FileRead ==
    \E i \in 1..Len(inflight), body \in Feeds :
        /\ inflight[i].route = "file"
        /\ Commit(i, LoadOk(body))

\* except FileNotFoundError: raise HomeAssistantError
FileNotFound ==
    \E i \in 1..Len(inflight) :
        /\ inflight[i].route = "file"
        /\ Commit(i, LoadError("file_not_found"))

\* path.read_text raises another error (permission, decoding)
FileReadError ==
    \E i \in 1..Len(inflight) :
        /\ inflight[i].route = "file"
        /\ Commit(i, LoadError("read_error"))

\* midnight passes
Tick ==
    /\ today # AddDays(StartDay, MaxClock)
    /\ today' = NextDay(today)
    /\ UNCHANGED <<entry, setup, raised, data, last_update_success, last_exception,
                   last_load, inflight, timer, registry, sensors, loaded,
                   dp_in, dp_out, pc_in, pc_out, states>>

NotCalled == [called |-> FALSE, value |-> << >>]

\* no feed is given to _parse_csv on its own
NoFeed == [blank |-> FALSE, rows |-> << >>]

Init ==
    /\ entry \in Entries
    /\ setup = "idle"
    /\ raised = ""
    /\ data = << >>
    /\ last_update_success = TRUE
    /\ last_exception = ""
    /\ last_load = ""
    /\ inflight = << >>
    /\ timer = FALSE
    /\ registry = FALSE
    /\ sensors = FALSE
    /\ today = StartDay
    /\ loaded = << >>
    /\ dp_in = << >>
    /\ dp_out = NotCalled
    /\ pc_in = NoFeed
    /\ pc_out = NotCalled
    /\ states = << >>

Next ==
    \/ AsyncSetupEntry
    \/ SensorSetupEntry
    \/ AsyncUnloadEntry
    \/ HandleRefreshInterval
    \/ LoadInline
    \/ LoadNoSource
    \/ HttpOk
    \/ HttpStatus
    \/ HttpClientError
    \/ FileRead
    \/ FileNotFound
    \/ FileReadError
    \/ Tick

Spec == Init /\ [][Next]_vars

\* the event loop runs every step that is ready; a request that the remote
\* answers is answered in the end; nothing makes midnight pass
(***************************************************************************)
(* The date parser on its own: every day of the calendar years in each of  *)
(* the three spellings, and texts that are no date.                        *)
(***************************************************************************)
FirstYear == StartDay[1] - 1

CalendarDays ==
    {t \in (FirstYear..(FirstYear + NYears - 1)) \X (1..12) \X (1..31) :
        ValidDate(t[1], t[2], t[3])}

DateInputs ==
    {SpellIso(d) : d \in CalendarDays}
    \cup {SpellSlash(d) : d \in CalendarDays}
    \cup {SpellDash(d) : d \in CalendarDays}
    \cup {<< >>, BadDate, Huisvuil}

DateInit ==
    /\ entry = [source_type |-> "url", source_url |-> UrlPath, csv_content |-> << >>]
    /\ setup = "idle"
    /\ raised = ""
    /\ data = << >>
    /\ last_update_success = TRUE
    /\ last_exception = ""
    /\ last_load = ""
    /\ inflight = << >>
    /\ timer = FALSE
    /\ registry = FALSE
    /\ sensors = FALSE
    /\ today = StartDay
    /\ loaded = << >>
    /\ dp_in \in DateInputs
    /\ dp_out = NotCalled
    /\ pc_in = NoFeed
    /\ pc_out = NotCalled
    /\ states = << >>

\* date_obj = _parse_date(date_str)
ParseDateCall ==
    /\ ~dp_out.called
    /\ dp_out' = [called |-> TRUE, value |-> ParseDate(dp_in)]
    /\ UNCHANGED <<entry, setup, raised, data, last_update_success, last_exception,
                   last_load, inflight, timer, registry, sensors, today, loaded,
                   dp_in, pc_in, pc_out, states>>

DateSpec == DateInit /\ [][ParseDateCall]_vars

(***************************************************************************)
(* The CSV parser on its own: the same rows of the four-column layout as a *)
(* semicolon-delimited and as a comma-delimited text, with or without an   *)
(* empty first line.  The values hold no delimiter and no quote character. *)
(***************************************************************************)
CsvRows ==
    {<<d, o, << >>, r>> :
        d \in {SpellIso(DayNear), SpellSlash(DayPast), << >>},
        o \in {PapierKarton, <<SP>> \o Pmd, Onbekend},
        r \in {<< >>, <<"x">>}}

CsvInputs ==
    {[blank |-> b, rows |-> rs] :
        b \in BOOLEAN, rs \in UNION {[1..n -> CsvRows] : n \in 0..MaxRows}}

\* the text of the rows with the delimiter dl
CsvText(in, dl) ==
    (IF in.blank THEN <<LF>> ELSE << >>)
        \o HeaderLine(dl)
        \o Concat([i \in 1..Len(in.rows) |-> Join(in.rows[i], dl) \o <<LF>>])

\* what a call of _parse_csv shows: the delimiter of its dialect, whether
\* it raised, and the pickups it returned
ParseCsvRun(content) ==
    [delimiter |-> Dialect(content).delimiter,
     raised |-> ParseCsv(content).raised,
     pickups |-> ParseCsv(content).pickups]

CsvInit ==
    /\ entry = [source_type |-> "url", source_url |-> UrlPath, csv_content |-> << >>]
    /\ setup = "idle"
    /\ raised = ""
    /\ data = << >>
    /\ last_update_success = TRUE
    /\ last_exception = ""
    /\ last_load = ""
    /\ inflight = << >>
    /\ timer = FALSE
    /\ registry = FALSE
    /\ sensors = FALSE
    /\ today = StartDay
    /\ loaded = << >>
    /\ dp_in = << >>
    /\ dp_out = NotCalled
    /\ pc_in \in CsvInputs
    /\ pc_out = NotCalled
    /\ states = << >>

\* pickups = self._parse_csv(content), for both texts of the rows
ParseCsvCall ==
    /\ ~pc_out.called
    /\ pc_out' = [called |-> TRUE,
                  value |-> [semicolon |-> ParseCsvRun(CsvText(pc_in, ";")),
                             comma |-> ParseCsvRun(CsvText(pc_in, ","))]]
    /\ UNCHANGED <<entry, setup, raised, data, last_update_success, last_exception,
                   last_load, inflight, timer, registry, sensors, today, loaded,
                   dp_in, dp_out, pc_in, states>>

CsvSpec == CsvInit /\ [][ParseCsvCall]_vars

(***************************************************************************)
(* The properties of the specification.                                    *)
(***************************************************************************)
LoadErrors == {"no_source", "http_status", "client_error", "file_not_found",
               "read_error"}

\* a cycle ends in this step
CycleEnds == Len(inflight') < Len(inflight)

\* C1: when the load stage of a refresh cycle fails and a snapshot was
\* published before, the cycle leaves the published snapshot as it was and
\* the coordinator is in its failed state
C1_FailedLoadKeepsSnapshot ==
    [][(CycleEnds /\ last_load' \in LoadErrors /\ data # << >>)
          => (data' = data /\ ~last_update_success' /\ last_exception' # "")]_vars

\* a refresh failed at the load stage while a snapshot is published
C1_Witness ==
    /\ data # << >>
    /\ ~last_update_success
    /\ last_load \in {"http_status", "file_not_found"}
    /\ data[1].pickups # << >>

\* the order of texts, character by character
TextLE(a, b) ==
    \/ \E i \in 1..Len(a) :
          /\ i <= Len(b)
          /\ \A j \in 1..(i - 1) : a[j] = b[j]
          /\ Ord(a[i]) < Ord(b[i])
    \/ /\ Len(a) <= Len(b)
       /\ \A j \in 1..Len(a) : a[j] = b[j]

\* C2: in every published snapshot the upcoming pickups are in
\* non-decreasing order of their date, and the next pickup is present
\* exactly when the list is not empty and is then its first entry
C2_SortedAndNextIsFirst ==
    data # << >> =>
        /\ \A i \in 1..(Len(data[1].pickups) - 1) :
              TextLE(data[1].pickups[i].date, data[1].pickups[i + 1].date)
        /\ (data[1].next_pickup = << >>) <=> (data[1].pickups = << >>)
        /\ data[1].pickups # << >> => data[1].next_pickup = <<data[1].pickups[1]>>

\* a snapshot of two pickups on different days whose rows came later first
C2_Witness ==
    /\ data # << >>
    /\ Len(data[1].pickups) = 2
    /\ data[1].pickups[1].date # data[1].pickups[2].date
    /\ data[1].next_pickup = <<data[1].pickups[1]>>
    /\ FeedRows[loaded[1].content][1].Datum
           # FeedRows[loaded[1].content][2].Datum
    /\ ParseDate(FeedRows[loaded[1].content][1].Datum[1])
           = <<DayFuture>>

\* C3: at most one refresh cycle is in flight at any time, and no trigger
\* is armed while one is
C3_OneCycleInFlight ==
    /\ Len(inflight) <= 1
    /\ inflight # << >> => ~timer

\* a cycle started by the timer is in flight
C3_Witness ==
    /\ Len(inflight) = 1
    /\ inflight[1].trigger = "timer"
    /\ sensors

\* the number of indices of a sequence with a property
CountIdx(seq, P(_)) == Cardinality({i \in 1..Len(seq) : P(seq[i])})

\* C4: the upcoming pickups of a snapshot are exactly the parsed records
\* that have a date and whose date is today or later; a record without a
\* date or dated before today is in no snapshot
C4_UpcomingExactly ==
    loaded # << >> =>
        /\ data # << >>
        /\ \A c \in {CleanPickup(r) :
                        r \in {ParsedFeeds[loaded[1].content].pickups[i] :
                                 i \in 1..Len(ParsedFeeds[loaded[1].content].pickups)}}
                    \cup {data[1].pickups[i] : i \in 1..Len(data[1].pickups)} :
              CountIdx(data[1].pickups, LAMBDA x : x = c)
                = CountIdx(ParsedFeeds[loaded[1].content].pickups,
                           LAMBDA r : /\ CleanPickup(r) = c
                                      /\ r.date_obj # << >>
                                      /\ ~DateLT(r.date_obj[1], loaded[1].today))

\* a record dated today is kept while a record dated earlier is dropped
C4_Witness ==
    /\ loaded # << >>
    /\ loaded[1].today = DayNear
    /\ \E i \in 1..Len(ParsedFeeds[loaded[1].content].pickups) :
          ParsedFeeds[loaded[1].content].pickups[i].date_obj = <<DayNear>>
    /\ \E i \in 1..Len(ParsedFeeds[loaded[1].content].pickups) :
          ParsedFeeds[loaded[1].content].pickups[i].date_obj = <<DayPast>>
    /\ Len(data[1].pickups) = 1

\* t is the label with white space around it
IsPadded(t, label) ==
    \E a \in 0..Len(t) :
        /\ a + Len(label) <= Len(t)
        /\ SubSeq(t, a + 1, a + Len(label)) = label
        /\ \A i \in (1..a) \cup ((a + Len(label) + 1)..Len(t)) : IsSpace(t[i])

\* the row carries one of the labels
HasLabel(row, labels) == \E l \in labels : IsPadded(OrEmpty(row.Ophaling), l)

\* the rows of the loaded content with one of the labels are the records
\* ingestion keeps, and those of them dated today or later are, label by
\* label, the upcoming pickups
KeptExactly(labels) ==
    loaded # << >> =>
        /\ Len(ParsedFeeds[loaded[1].content].pickups)
             = CountIdx(FeedRows[loaded[1].content],
                        LAMBDA row : HasLabel(row, labels))
        /\ \A i \in 1..Len(data[1].pickups) : data[1].pickups[i].waste_type \in labels
        /\ \A l \in labels :
              CountIdx(data[1].pickups, LAMBDA x : x.waste_type = l)
                = CountIdx(FeedRows[loaded[1].content],
                           LAMBDA row :
                               /\ IsPadded(OrEmpty(row.Ophaling), l)
                               /\ ParseDate(OrEmpty(row.Datum)) # << >>
                               /\ ~DateLT(ParseDate(OrEmpty(row.Datum))[1],
                                          loaded[1].today))

\* the labels the specification names
SpecLabels == {Huisvuil, PmdUpper, Textiel, PapierKartonUpper, Tuinafval, Keukenafval}

\* the labels of the feed's vocabulary
FeedLabels == {Huisvuil, Pmd, Textiel, PapierKarton, Tuinafval, Keukenafval}

\* C5 as stated: a row is kept exactly when its trimmed Ophaling value is
\* one of "Huisvuil", "PMD", "Textiel", "Papier & Karton", "Tuinafval",
\* "Keukenafval"
C5_KeptIffSpecLabel == KeptExactly(SpecLabels)

\* C5 amended: a row is kept exactly when its trimmed Ophaling value is one
\* of "Huisvuil", "Pmd", "Textiel", "Papier & karton", "Tuinafval",
\* "Keukenafval"; every upcoming pickup has such a waste type and every
\* such row dated today or later is an upcoming pickup
C5_KeptIffFeedLabel == KeptExactly(FeedLabels)

\* a content with a "PMD" row, which is dropped, and a padded " Pmd" row
\* or a "Pmd" row, which is kept and upcoming
C5_Witness ==
    /\ loaded # << >>
    /\ \E i \in 1..Len(FeedRows[loaded[1].content]) :
          FeedRows[loaded[1].content][i].Ophaling = <<PmdUpper>>
    /\ \A i \in 1..Len(data[1].pickups) : data[1].pickups[i].waste_type = Pmd
    /\ data[1].pickups # << >>

\* a content with a padded " Pmd" row that is an upcoming pickup
C5_WitnessPadded ==
    /\ loaded # << >>
    /\ \E i \in 1..Len(FeedRows[loaded[1].content]) :
          FeedRows[loaded[1].content][i].Ophaling = <<(<<SP>> \o Pmd)>>
    /\ \E i \in 1..Len(data[1].pickups) : data[1].pickups[i].waste_type = Pmd

\* the entry names no source: neither a URL or path nor an inline text
NoSource(e) == e.source_url = << >> /\ e.csv_content = << >>

\* the entry names a source kind other than "url" and "upload"
UnsupportedKind(e) == e.source_type \notin {"url", "upload", ""}

C8_NoExceptionLeaves ==
    /\ raised = ""
    /\ (data = << >> /\ last_load # "") => ~last_update_success

\* C8 amended: an error of a cycle leaves as an exception only when the
\* first refresh of a setup fails, as ConfigEntryNotReady out of
\* async_setup_entry, and then nothing is registered and no sensor exists;
\* wherever the coordinator is registered or sensors exist there is data,
\* fresh or stale with the failure flagged, and there is no data after a
\* finished refresh only when that first refresh failed
C8_OnlyFirstRefreshRaises ==
    /\ raised \in {"", "ConfigEntryNotReady"}
    /\ raised # "" =>
          /\ setup = "not_ready"
          /\ ~registry /\ ~sensors
          /\ data = << >> /\ ~last_update_success
    /\ (registry \/ sensors) => (data # << >> /\ raised = "")
    /\ (data # << >> /\ ~last_update_success) => last_exception # ""
    /\ (data = << >> /\ last_load # "") =>
          (~last_update_success /\ raised = "ConfigEntryNotReady")

\* the first refresh of a setup failed
C8_Witness ==
    /\ raised = "ConfigEntryNotReady"
    /\ setup = "not_ready"
    /\ last_exception \in LoadErrors \cup {"csv.Error"}

\* sensors show stale data after a failed timer refresh
C8_WitnessStale ==
    /\ sensors
    /\ data # << >>
    /\ ~last_update_success
    /\ raised = ""

\* C9: no content makes the parsing, and with it the cycle, fail
C9_ParseNeverFails ==
    /\ last_exception # "csv.Error"
    /\ last_load = "text" => last_update_success

\* C10: for every calendar day the date parser returns that day for each
\* of its spellings YYYY-MM-DD, DD/MM/YYYY and DD-MM-YYYY
C10_SameDateForSpellings ==
    dp_out.called =>
        \A d \in CalendarDays :
            dp_in \in {SpellIso(d), SpellSlash(d), SpellDash(d)}
                => dp_out.value = <<d>>

\* "01/03/2025" was parsed to 1 March 2025
C10_Witness ==
    /\ dp_out.called
    /\ dp_in = SpellSlash(DayFuture)
    /\ dp_out.value = <<DayFuture>>

\* C11: the same rows give the same records as semicolon-delimited and as
\* comma-delimited text, and when no delimiter can be detected on the first
\* line the parsing goes on with ";" and does not raise
C11_DelimiterIndependent ==
    pc_out.called =>
        /\ pc_out.value.semicolon.pickups = pc_out.value.comma.pickups
        /\ ~pc_out.value.semicolon.raised /\ ~pc_out.value.comma.raised
        /\ ~pc_in.blank =>
              /\ pc_out.value.semicolon.delimiter = ";"
              /\ pc_out.value.comma.delimiter = ","
              /\ Len(pc_out.value.comma.pickups)
                   = Cardinality({i \in 1..Len(pc_in.rows) :
                                     pc_in.rows[i][2] # Onbekend})
        /\ pc_in.blank =>
              /\ pc_out.value.semicolon.delimiter = ";"
              /\ pc_out.value.comma.delimiter = ";"

\* two rows were parsed from both texts into two records
C11_Witness ==
    /\ pc_out.called
    /\ ~pc_in.blank
    /\ Len(pc_out.value.comma.pickups) = 2
    /\ pc_out.value.comma.pickups[1].date_obj = << >>
    /\ pc_out.value.comma.pickups[2].date_obj = <<DayNear>>
    /\ pc_out.value.comma.delimiter = ","

\* rows after an empty first line were parsed with the fallback
C11_WitnessFallback ==
    /\ pc_out.called
    /\ pc_in.blank
    /\ pc_in.rows # << >>
    /\ pc_out.value.comma.delimiter = ";"

\* t is a date written YYYY-MM-DD
IsIsoText(t) ==
    /\ Len(t) = 10
    /\ t[5] = "-" /\ t[8] = "-"
    /\ \A i \in {1, 2, 3, 4, 6, 7, 9, 10} : IsDigit(t[i])

\* the places of the upcoming pickups of a category in the snapshot
PlacesOf(w) ==
    {i \in 1..Len(data[1].pickups) : data[1].pickups[i].waste_type = w}

\* C12: the next pickup a category's sensor publishes is the date of the
\* first upcoming pickup of that category in the snapshot, no other
\* upcoming pickup of the category is earlier, it is absent exactly when
\* the snapshot has no upcoming pickup of the category, and it is written
\* YYYY-MM-DD
C12_NextPickupOfCategory ==
    (states # << >> /\ data # << >>) =>
        \A w \in FeedLabels :
            /\ (states[1].native[w] = << >>) <=> (PlacesOf(w) = {})
            /\ \A i \in PlacesOf(w) :
                  /\ (\A j \in PlacesOf(w) : i <= j)
                        => states[1].native[w] = <<data[1].pickups[i].date>>
                  /\ TextLE(states[1].native[w][1], data[1].pickups[i].date)
            /\ states[1].native[w] # << >> => IsIsoText(states[1].native[w][1])

\* two upcoming Pmd pickups on different days and none of Huisvuil: the
\* Pmd sensor shows the earlier day, the Huisvuil sensor nothing
C12_Witness ==
    /\ states # << >>
    /\ data # << >>
    /\ Cardinality(PlacesOf(Pmd)) = 2
    /\ data[1].pickups[1].date # data[1].pickups[2].date
    /\ states[1].native[Pmd] = <<IsoFormat(DayNear)>>
    /\ states[1].native[Huisvuil] = << >>
    /\ states[1].available

\* the sensors exist only with a registered coordinator that holds a
\* snapshot, and no state write of theirs met data that is None
SensorsHaveSnapshot ==
    /\ sensors => (registry /\ data # << >>)
    /\ registry => data # << >>
    /\ states # << >> => ~states[1].error

\* a failed refresh keeps the snapshot the sensors read; a successful
\* unload removes the sensors and the coordinator from the registry; a
\* failed unload leaves the coordinator registered
UnloadAndFailureSteps ==
    /\ (CycleEnds /\ sensors /\ sensors' /\ ~last_update_success') => data' = data
    /\ (setup = "loaded" /\ setup' = "idle") => (~registry' /\ ~sensors')
    /\ (setup = "loaded" /\ setup' = "failed_unload") =>
          (registry' /\ sensors' = sensors /\ data' = data)

\* C13: wherever a sensor exists the registered coordinator holds a
\* snapshot: registration and sensors come only after a successful first
\* refresh, a failed refresh never makes the snapshot absent, a successful
\* unload removes the coordinator from the registry and a failed unload
\* leaves it registered
C13_SensorsNeverReadAbsent ==
    /\ []SensorsHaveSnapshot
    /\ [][UnloadAndFailureSteps]_vars

\* after a failed refresh and a failed unload the sensors still have the
\* registered coordinator and its snapshot
C13_Witness ==
    /\ setup = "failed_unload"
    /\ sensors
    /\ registry
    /\ data # << >>
    /\ ~last_update_success

\* the entry was unloaded after its sensors had existed
C13_WitnessUnloaded ==
    /\ setup = "idle"
    /\ ~registry
    /\ ~sensors
    /\ today # StartDay

====
